---------------------------- MODULE Spec2Model ----------------------------
(***************************************************************************)
(* Three independent Telegram webhook bots of the repository:              *)
(*   prefix S_   src/bot.py       Flask + pyTelegramBotAPI, secret in URL  *)
(*   prefix F_   src/BOT/bot.py   FastAPI + python-telegram-bot            *)
(*   prefix M_ or none   src/bot/bot.py   Flask + Dispatcher, JSON files   *)
(* Every program has its own variables; a specification runs one program   *)
(* (or the two Flask webhooks side by side) and leaves the others alone.   *)
(***************************************************************************)
EXTENDS Integers, Sequences, FiniteSets, TLC

VARIABLES
    \* ---- src/bot.py
    S_req,            \* the request webhook() served last, with its outcome
    S_processed,      \* updates handed to bot.process_new_updates so far
    tg_webhook,       \* the webhook URL registered at Telegram for the bot
    S_pc,             \* position of each set_webhook() caller
    S_ret,            \* return value of each set_webhook() caller
    S_WEBHOOK_URL,    \* os.getenv("WEBHOOK_URL"), a sequence of characters
    \* ---- src/BOT/bot.py
    application,      \* global application: "None" or "built"
    F_ready,          \* global _ready
    F_pc,             \* position of on_startup
    F_attempt,        \* loop variable attempt of on_startup
    update_queue,     \* application.update_queue
    F_replies,        \* updates a command handler has replied to
    F_log,            \* one entry per request served by telegram_webhook
    F_health,         \* what GET /health last reported
    F_set_ok,         \* a set_webhook call of this process has succeeded
    F_nreq,           \* requests served so far
    F_slept,          \* the asyncio.sleep durations of on_startup, in seconds
    F_set_calls,      \* set_webhook calls made by on_startup
    \* ---- src/bot/bot.py
    M_WEBHOOK_SECRET, \* os.environ.get('WEBHOOK_SECRET', '123').strip()
    users_db,         \* users_db of each worker process
    messages_db,      \* messages_db of each worker process
    fitness_score,    \* advanced_dna.dna["fitness_score"] of each worker, in 1/40
    users_file,       \* content of data/users.json
    now,              \* datetime.now(), one tick per request
    log_seq,          \* entries ever appended to messages_db (per worker)
    M_req,            \* the request webhook() served last, with its outcome
    ever_saved,       \* user ids that were written to users.json at some time
    last_mutation,    \* arguments of the last record_intelligent_mutation call
    \* ---- src/bot.py, the /admin/... endpoints
    S_admin_req,      \* the admin request served last, with its outcome
    S_api_calls,      \* Telegram API methods the admin endpoints have requested
    \* ---- src/bot/bot.py, TaskManager
    tasks_db,         \* tasks_db
    T_now,            \* datetime.now() of the task checker, in minutes
    reminder_calls,   \* _send_task_reminder calls made so far, per task
    \* ---- src/bot/bot.py, QuizGameSystem and its inline buttons
    active_games,     \* quiz_system.active_games, the games in creation order
    Q_time,           \* int(time.time())
    Q_messages,       \* the quiz messages sent, each with its answer buttons
    Q_call,           \* the last button press and the answer_question call it made
    \* ---- src/bot/bot.py, the request threads of app.run(threaded=True)
    H_pc,             \* position of each request thread
    H_user,           \* the user whose message the thread is handling
    H_found,          \* what the thread's linear scan of users_db found
    \* ---- src/bot/bot.py, the command handlers of the admin functions
    broadcasts_db,    \* broadcasts_db
    admin_requests_db, \* admin_requests_db
    pending_broadcast, \* context.user_data['pending_broadcast'] of each user
    pending_cleanup,  \* context.user_data['pending_cleanup'] of each user
    A_cmd             \* the command handled last, with its outcome, the command
                      \* its sender had sent before it and each user's last command

S_vars == <<S_req, S_processed, tg_webhook, S_pc, S_ret, S_WEBHOOK_URL>>
F_vars == <<application, F_ready, F_pc, F_attempt, update_queue, F_replies,
            F_log, F_health, F_set_ok, F_nreq, F_slept, F_set_calls>>
M_vars == <<M_WEBHOOK_SECRET, users_db, messages_db, fitness_score, users_file,
            now, log_seq, M_req, ever_saved, last_mutation>>
SA_vars == <<S_admin_req, S_api_calls>>
T_vars == <<tasks_db, T_now, reminder_calls>>
Q_vars == <<active_games, Q_time, Q_messages, Q_call>>
H_vars == <<H_pc, H_user, H_found>>
A_vars == <<broadcasts_db, admin_requests_db, pending_broadcast, pending_cleanup,
            A_cmd>>
Ext_vars == <<SA_vars, T_vars, Q_vars, H_vars, A_vars>>
SA_others == <<T_vars, Q_vars, H_vars, A_vars>>
T_others == <<SA_vars, Q_vars, H_vars, A_vars>>
Q_others == <<SA_vars, T_vars, H_vars, A_vars>>
H_others == <<SA_vars, T_vars, Q_vars, A_vars>>
A_others == <<SA_vars, T_vars, Q_vars, H_vars>>
vars == <<S_vars, F_vars, M_vars, Ext_vars>>

\* ------------------------------------------------------------------ bounds
MaxRequests == 2      \* webhook requests served in one behaviour
MaxMutations == 2     \* record_intelligent_mutation calls in one behaviour
MaxLogCalls == 3      \* log_message calls on the nearly full message log
MaxFastRequests == 3  \* requests served by the FastAPI process
MaxAdminRequests == 3 \* requests served by the /admin/... endpoints of src/bot.py
MaxTasks == 2         \* tasks created in one behaviour
MaxRounds == 3        \* rounds of the background task checker
MaxQuizzes == 2       \* quizzes started in one behaviour
MaxPresses == 2       \* answer buttons pressed in one behaviour
MaxThreadMessages == 3 \* messages handled by the request threads
MaxConfirmCommands == 4 \* commands handled in a run of the two-step confirmations
MaxRequestCommands == 4 \* commands and calls in a run of the admin requests
MaxAdminCommands == 3 \* commands handled in a run of all admin functions

Min(a, b) == IF a < b THEN a ELSE b

\* =========================================================================
\* src/bot.py
\* =========================================================================
S_WEBHOOK_SECRET == "change_this_secret"
S_Secrets == {S_WEBHOOK_SECRET, "guess"}

\* Status of webhook(secret): abort(403), abort(400), or "OK", 200 from both
\* the try body and the except branch. raised: the try body raised.
S_webhook_status_500(secret, is_json, raised) ==
    IF secret # S_WEBHOOK_SECRET THEN 403
    ELSE IF ~is_json THEN 400
    ELSE IF raised THEN 500
    ELSE 200

S_webhook_status(secret, is_json, raised) ==
    IF secret # S_WEBHOOK_SECRET THEN 403
    ELSE IF ~is_json THEN 400
    ELSE IF raised THEN 200
    ELSE 200

\* Does webhook(secret) reach the try body (get_json, de_json,
\* process_new_updates)?
S_webhook_enters_try(secret, is_json) ==
    secret = S_WEBHOOK_SECRET /\ is_json

\* POST /webhook/<secret>. body: "update" (a valid Update), "malformed"
\* (get_json(force=True) or de_json raises), "handler_error"
\* (process_new_updates raises). S_req keeps the body only when it was read.
S_webhook ==
    /\ now + S_req.id < MaxRequests
    /\ \E secret \in S_Secrets, is_json \in BOOLEAN,
          body \in {"update", "malformed", "handler_error"} :
         LET tried  == S_webhook_enters_try(secret, is_json)
             parsed == tried /\ body # "malformed"
             raised == tried /\ body # "update"
         IN  /\ S_req' = [id        |-> S_req.id + 1,
                          secret    |-> secret,
                          is_json   |-> is_json,
                          body      |-> IF tried THEN body ELSE "unread",
                          parsed    |-> parsed,
                          raised    |-> raised,
                          status    |-> S_webhook_status(secret, is_json, raised)]
             /\ S_processed' = IF parsed THEN S_processed + 1 ELSE S_processed
    /\ UNCHANGED <<tg_webhook, S_pc, S_ret, S_WEBHOOK_URL>>
    /\ UNCHANGED <<F_vars, M_vars, Ext_vars>>

\* ---- set_webhook() and its callers
S_Callers == {"module_worker", "main_worker", "admin_set_webhook"}

RECURSIVE rstrip(_)
\* str.rstrip('/')
rstrip(s) ==
    IF Len(s) > 0 /\ s[Len(s)] = "/" THEN rstrip(SubSeq(s, 1, Len(s) - 1))
    ELSE s

\* f"{WEBHOOK_URL.rstrip('/')}/webhook/{WEBHOOK_SECRET}"
S_webhook_url == rstrip(S_WEBHOOK_URL) \o <<"/", "webhook", "/", S_WEBHOOK_SECRET>>

\* The order of the calls in set_webhook(): deleteWebhook first (best
\* effort), then setWebhook, whose answer is the return value.
S_set_webhook_order_swapped(pc) ==
    CASE pc = "idle"          -> "setWebhook"
      [] pc = "setWebhook"    -> "deleteWebhook"
      [] pc = "deleteWebhook" -> "done"

S_set_webhook_order(pc) ==
    CASE pc = "idle"          -> "deleteWebhook"
      [] pc = "deleteWebhook" -> "setWebhook"
      [] pc = "setWebhook"    -> "done"

\* A caller enters set_webhook(); WEBHOOK_URL is set, so it does not return
\* at once.
S_set_webhook_begin(c) ==
    /\ S_pc[c] = "idle"
    /\ S_pc' = [S_pc EXCEPT ![c] = S_set_webhook_order("idle")]
    /\ UNCHANGED <<S_req, S_processed, tg_webhook, S_ret, S_WEBHOOK_URL>>
    /\ UNCHANGED <<F_vars, M_vars, Ext_vars>>

\* requests.get(.../deleteWebhook, timeout=10). Telegram applies a request at
\* some moment between its sending and the return of requests.get; when the
\* call raises, Telegram may or may not have applied it, and the exception
\* is ignored.
S_set_webhook_delete(c) ==
    /\ S_pc[c] = "deleteWebhook"
    /\ \E applied \in BOOLEAN :
         tg_webhook' = IF applied THEN <<>> ELSE tg_webhook
    /\ S_pc' = [S_pc EXCEPT ![c] = S_set_webhook_order("deleteWebhook")]
    /\ UNCHANGED <<S_req, S_processed, S_ret, S_WEBHOOK_URL>>
    /\ UNCHANGED <<F_vars, M_vars, Ext_vars>>

\* requests.post(.../setWebhook, url=webhook_url): "ok" (r.ok and ok=true),
\* "refused" (Telegram answers ok=false), "lost" (the request raises before
\* Telegram saw it), "timeout" (the request raises after Telegram applied it).
S_set_webhook_set(c) ==
    /\ S_pc[c] = "setWebhook"
    /\ \E outcome \in {"ok", "refused", "lost", "timeout"} :
         /\ tg_webhook' = IF outcome \in {"ok", "timeout"}
                          THEN S_webhook_url ELSE tg_webhook
         /\ S_ret' = [S_ret EXCEPT ![c] = IF outcome = "ok" THEN "True" ELSE "False"]
    /\ S_pc' = [S_pc EXCEPT ![c] = S_set_webhook_order("setWebhook")]
    /\ UNCHANGED <<S_req, S_processed, S_WEBHOOK_URL>>
    /\ UNCHANGED <<F_vars, M_vars, Ext_vars>>

S_Init ==
    /\ S_req = [id |-> 0, secret |-> "none", is_json |-> FALSE, body |-> "none",
                parsed |-> FALSE, raised |-> FALSE, status |-> 0]
    /\ S_processed = 0
    /\ tg_webhook = <<>>
    /\ S_pc = [c \in S_Callers |-> "idle"]
    /\ S_ret = [c \in S_Callers |-> "none"]
    /\ S_WEBHOOK_URL = <<"https://host">>

\* Before the first set_webhook(): Telegram holds no webhook or an older
\* one, and WEBHOOK_URL is configured with or without a trailing slash.
S_InitSetWebhook ==
    /\ S_req = [id |-> 0, secret |-> "none", is_json |-> FALSE, body |-> "none",
                parsed |-> FALSE, raised |-> FALSE, status |-> 0]
    /\ S_processed = 0
    /\ tg_webhook \in {<<>>, <<"old">>}
    /\ S_pc = [c \in S_Callers |-> "idle"]
    /\ S_ret = [c \in S_Callers |-> "none"]
    /\ S_WEBHOOK_URL \in {<<"https://host">>, <<"https://host", "/">>}

\* ---- the admin endpoints /admin/<endpoint>/<secret>
S_Endpoints == {"set_webhook", "delete_webhook", "get_webhook_info"}
ApiOutcomes == {"ok", "refused", "lost", "timeout"}

\* "if secret != WEBHOOK_SECRET: abort(403)"
S_admin_authorized_any(secret) == TRUE

S_admin_authorized(secret) == secret = S_WEBHOOK_SECRET

\* The Telegram API requests the helper behind the endpoint sends.
S_admin_api_calls(endpoint) ==
    CASE endpoint = "set_webhook"      -> <<"deleteWebhook", "setWebhook">>
      [] endpoint = "delete_webhook"   -> <<"deleteWebhook">>
      [] endpoint = "get_webhook_info" -> <<"getWebhookInfo">>

\* A request Telegram received is applied ("ok", or "timeout" when only the
\* answer was lost); "refused" and "lost" change nothing.
ApiApplied(outcome) == outcome \in {"ok", "timeout"}

\* The webhook registered at Telegram after the helper ran; d and o are the
\* outcomes of its deleteWebhook and of its last request.
S_admin_effect(endpoint, hook, d, o) ==
    CASE endpoint = "set_webhook" ->
            IF ApiApplied(o) THEN S_webhook_url
            ELSE IF ApiApplied(d) THEN <<>> ELSE hook
      [] endpoint = "delete_webhook" -> IF ApiApplied(o) THEN <<>> ELSE hook
      [] endpoint = "get_webhook_info" -> hook

\* abort(403), or 200 / 500 after the helper's result.
S_admin_status(authorized, ok) ==
    IF ~authorized THEN 403 ELSE IF ok THEN 200 ELSE 500

S_admin ==
    /\ S_admin_req.id < MaxAdminRequests
    /\ \E endpoint \in S_Endpoints, secret \in S_Secrets, d \in ApiOutcomes,
          o \in ApiOutcomes :
         LET auth == S_admin_authorized(secret)
         IN  /\ ~auth => (d = "ok" /\ o = "ok")
             /\ endpoint # "set_webhook" => d = "ok"
             /\ tg_webhook' = IF auth
                              THEN S_admin_effect(endpoint, tg_webhook, d, o)
                              ELSE tg_webhook
             /\ S_api_calls' = IF auth
                               THEN S_api_calls \o S_admin_api_calls(endpoint)
                               ELSE S_api_calls
             /\ S_admin_req' = [id       |-> S_admin_req.id + 1,
                                endpoint |-> endpoint,
                                secret   |-> secret,
                                status   |-> S_admin_status(auth, o = "ok")]
    /\ UNCHANGED <<S_req, S_processed, S_pc, S_ret, S_WEBHOOK_URL>>
    /\ UNCHANGED <<F_vars, M_vars, SA_others>>

SA_Init ==
    /\ S_admin_req = [id |-> 0, endpoint |-> "none", secret |-> "none", status |-> 0]
    /\ S_api_calls = <<>>

\* =========================================================================
\* src/BOT/bot.py
\* =========================================================================
max_retries == 5

RECURSIVE Pow2(_)
\* 2 ** attempt
Pow2(n) == IF n = 0 THEN 1 ELSE 2 * Pow2(n - 1)

\* on_startup up to the retry loop: build_application() and the non-fatal
\* delete_webhook. uvicorn serves no request before on_startup has returned.
F_on_startup_begin ==
    /\ F_pc = "off"
    /\ application' = "built"
    /\ F_attempt' = 1
    /\ F_pc' = "attempt"
    /\ UNCHANGED <<F_ready, update_queue, F_replies, F_log, F_health, F_set_ok,
                   F_nreq, F_slept, F_set_calls>>
    /\ UNCHANGED <<S_vars, M_vars, Ext_vars>>

\* Where on_startup goes after a failed attempt: "if attempt < max_retries:
\* await asyncio.sleep(2 ** attempt)", else the loop ends and it returns.
F_after_failure_sleeps_again(attempt) ==
    IF attempt <= max_retries THEN "sleep" ELSE "serving"

F_after_failure(attempt) ==
    IF attempt < max_retries THEN "sleep" ELSE "serving"

\* One round of the retry loop: set_webhook returns (then _ready = True and
\* break) or raises (then sleep, or give up after max_retries attempts).
F_on_startup_attempt ==
    /\ F_pc = "attempt"
    /\ F_set_calls' = F_set_calls + 1
    /\ \E ok \in BOOLEAN :
         IF ok
         THEN /\ F_ready' = TRUE
              /\ F_set_ok' = TRUE
              /\ F_pc' = "serving"
         ELSE /\ F_pc' = F_after_failure(F_attempt)
              /\ UNCHANGED <<F_ready, F_set_ok>>
    /\ UNCHANGED <<application, F_attempt, update_queue, F_replies, F_log,
                   F_health, F_nreq, F_slept>>
    /\ UNCHANGED <<S_vars, M_vars, Ext_vars>>

\* await asyncio.sleep(2 ** attempt), then the next round of the loop.
F_on_startup_sleep ==
    /\ F_pc = "sleep"
    /\ F_slept' = Append(F_slept, Pow2(F_attempt))
    /\ F_attempt' = F_attempt + 1
    /\ F_pc' = "attempt"
    /\ UNCHANGED <<application, F_ready, update_queue, F_replies, F_log,
                   F_health, F_set_ok, F_nreq, F_set_calls>>
    /\ UNCHANGED <<S_vars, M_vars, Ext_vars>>

\* Status code of telegram_webhook. body: "update" (a valid Update),
\* "not_json" (request.json() raises, outside the try: the framework's 500),
\* "bad_update" (Update.de_json raises: the handler's 500).
F_telegram_webhook_status(app, body) ==
    IF app = "None" THEN 503
    ELSE IF body = "update" THEN 200
    ELSE 500

\* POST /<token>: the update is put on application.update_queue and
\* {"ok": true} is answered.
F_telegram_webhook ==
    /\ F_pc = "serving"
    /\ F_nreq < MaxFastRequests
    /\ F_nreq' = F_nreq + 1
    /\ \E body \in {"update", "not_json", "bad_update"} :
         LET status == F_telegram_webhook_status(application, body)
         IN  /\ F_log' = Append(F_log, [update |-> F_nreq + 1, body |-> body,
                                        status |-> status, ok |-> status = 200])
             /\ update_queue' = IF status = 200
                                THEN Append(update_queue, F_nreq + 1)
                                ELSE update_queue
    /\ UNCHANGED <<application, F_ready, F_pc, F_attempt, F_replies, F_health,
                   F_set_ok, F_slept, F_set_calls>>
    /\ UNCHANGED <<S_vars, M_vars, Ext_vars>>

\* POST /debug/setWebhookManual: delete_webhook (ignored), set_webhook and
\* get_webhook_info; _ready is not assigned.
F_debug_set_webhook_manual ==
    /\ F_pc = "serving"
    /\ application # "None"
    /\ \E ok \in BOOLEAN : F_set_ok' = (F_set_ok \/ ok)
    /\ UNCHANGED <<application, F_ready, F_pc, F_attempt, update_queue, F_replies,
                   F_log, F_health, F_nreq, F_slept, F_set_calls>>
    /\ UNCHANGED <<S_vars, M_vars, Ext_vars>>

\* GET /health
F_health_status(ready) == IF ready THEN "ready" ELSE "starting"

F_health_get ==
    /\ F_pc = "serving"
    /\ F_health' = [status |-> F_health_status(F_ready), set_ok |-> F_set_ok]
    /\ UNCHANGED <<application, F_ready, F_pc, F_attempt, update_queue, F_replies,
                   F_log, F_set_ok, F_nreq, F_slept, F_set_calls>>
    /\ UNCHANGED <<S_vars, M_vars, Ext_vars>>

F_Init ==
    /\ application = "None"
    /\ F_ready = FALSE
    /\ F_pc = "off"
    /\ F_attempt = 0
    /\ update_queue = <<>>
    /\ F_replies = {}
    /\ F_log = <<>>
    /\ F_health = [status |-> "none", set_ok |-> FALSE]
    /\ F_set_ok = FALSE
    /\ F_nreq = 0
    /\ F_slept = <<>>
    /\ F_set_calls = 0

\* Nothing in src/BOT/bot.py calls Application.initialize(), start() or
\* process_update(): the task that takes updates from update_queue is never
\* created, so the program has no step that removes an update from the queue
\* or runs a command handler.
F_Next ==
    \/ F_on_startup_begin
    \/ F_on_startup_attempt
    \/ F_on_startup_sleep
    \/ F_telegram_webhook
    \/ F_debug_set_webhook_manual
    \/ F_health_get


\* =========================================================================
\* src/bot/bot.py
\* =========================================================================
Workers == {1, 2}          \* worker processes; a single-process run uses worker 1
Users == {1, 2}            \* Telegram user ids
ADMIN_USER_ID == 1
MAX_MESSAGES == 5000       \* "Keep last 5000 messages"
FITNESS_CAP == 100
FitnessUnit == 2 * 20         \* fitness_score is kept in 1/40 of a point
Absent == 0 - 1            \* a key the dict does not have

\* The command names log_message is called with.
LoggedNames == {"ping", "admin_stats", "text", "info", "help", "admin", "users",
                "export", "admin_requests", "evolve", "restart", "broadcast",
                "request_admin"}
NoCommands == [c \in LoggedNames |-> 0]

\* save_json(filepath, data): open(filepath, 'w') truncates, json.dump writes
\* data; old is what the file held. A user record holds only str, int, float,
\* None, dict and list values, which json.load gives back unchanged.
save_json_merge(old, data) ==
    data \o SelectSeq(old, LAMBDA r : \A i \in 1..Len(data) : data[i].user_id # r.user_id)

save_json(old, data) == data

\* The linear scan "for user in users_db: if user['user_id'] == user_id":
\* the index of the first match, 0 if there is none.
FindUser(db, user_id) ==
    IF \E i \in 1..Len(db) : db[i].user_id = user_id
    THEN CHOOSE i \in 1..Len(db) :
            /\ db[i].user_id = user_id
            /\ \A j \in 1..(i - 1) : db[j].user_id # user_id
    ELSE 0

\* "if ADMIN_USER_ID and str(user_id) == ADMIN_USER_ID", else the is_admin
\* flag of a record of the user.
is_admin_anyone(db, user_id) == TRUE

is_admin(db, user_id) ==
    \/ user_id = ADMIN_USER_ID
    \/ \E i \in 1..Len(db) : db[i].user_id = user_id /\ db[i].is_admin

\* should_respond for a text that is no command. kind: "plain" (no trigger
\* word), "trigger" (mentions the bot or holds a trigger word), "button" (a
\* keyboard label without a trigger word), "help_button" (the help label,
\* which holds the trigger word). No code path sets interaction_style to
\* "minimal".
should_respond(chat_type, kind) ==
    \/ chat_type = "private"
    \/ kind \in {"trigger", "help_button"}

\* get_or_create_user without its save_json: the new users_db.
get_or_create_user_no_count(db, user_id, t) ==
    LET i == FindUser(db, user_id)
    IN  IF i # 0
        THEN [db EXCEPT ![i] = [@ EXCEPT !.last_seen = t,
                                         !.total_interactions = @ + 1,
                                         !.last_command = "None",
                                         !.engagement_score = Absent]]
        ELSE Append(db, [user_id            |-> user_id,
                         first_seen         |-> t,
                         message_count      |-> 1,
                         last_seen          |-> t,
                         is_admin           |-> is_admin(db, user_id),
                         total_interactions |-> 1,
                         last_command       |-> "absent",
                         commands_used      |-> NoCommands,
                         engagement_score   |-> 50])

\* The branch of get_or_create_user that found the record at index i:
\* user.update(updates).
update_user(db, i, t) ==
    [db EXCEPT ![i] = [@ EXCEPT !.last_seen = t,
                                !.message_count = @ + 1,
                                !.total_interactions = @ + 1,
                                !.last_command = "None",
                                !.engagement_score = Absent]]

\* The branch that found none: users_db.append(new_user).
append_new_user(db, user_id, t) ==
    Append(db, [user_id            |-> user_id,
                first_seen         |-> t,
                message_count      |-> 1,
                last_seen          |-> t,
                is_admin           |-> is_admin(db, user_id),
                total_interactions |-> 1,
                last_command       |-> "absent",
                commands_used      |-> NoCommands,
                engagement_score   |-> 50])

get_or_create_user(db, user_id, t) ==
    LET i == FindUser(db, user_id)
    IN  IF i # 0 THEN update_user(db, i, t) ELSE append_new_user(db, user_id, t)

\* "if len(messages_db) > 5000: messages_db.pop(0)"
TrimLog_pop_newest(log) ==
    IF Len(log) > MAX_MESSAGES THEN SubSeq(log, 1, Len(log) - 1) ELSE log

TrimLog(log) ==
    IF Len(log) > MAX_MESSAGES THEN Tail(log) ELSE log

\* log_message(update, command) on the state st = [users_db, users_file,
\* messages_db, log_seq, calls, raised]; calls counts the log_message calls. member_count_raises: chat.get_member_count()
\* in register_group raises, which ends log_message after the user update.
\* The field seq of a log entry numbers the entries in their order of arrival.
\* log_message after get_or_create_user returned the record at index i of
\* db1 and left file1 in users.json.
log_message_rest(st, db1, file1, i, user_id, chat_type, command, member_count_raises) ==
    LET db2   == [db1 EXCEPT ![i] = [@ EXCEPT
                     !.commands_used = [@ EXCEPT ![command] = @ + 1],
                     !.last_command = command,
                     !.engagement_score = Min(100, 50 + db1[i].total_interactions)]]
        entry == [user_id |-> user_id, command |-> command, seq |-> st.log_seq + 1]
    IN  IF chat_type = "group" /\ member_count_raises
        THEN [st EXCEPT !.users_db = db2, !.users_file = file1,
                        !.calls = @ + 1, !.raised = TRUE]
        ELSE [st EXCEPT !.users_db = db2, !.users_file = file1,
                        !.calls = @ + 1,
                        !.messages_db = TrimLog(Append(st.messages_db, entry)),
                        !.log_seq = @ + 1]

log_message(st, user_id, chat_type, command, t, member_count_raises) ==
    LET db1   == get_or_create_user(st.users_db, user_id, t)
        file1 == save_json(st.users_file, db1)
    IN  log_message_rest(st, db1, file1, FindUser(db1, user_id), user_id,
                         chat_type, command, member_count_raises)

\* The handler the dispatcher picks for the update and everything it calls,
\* up to its reply. upd = [user, chat_type, kind, fail].
\*   "ping"              ping: log_message, reply
\*   "stats"             admin_stats: is_admin check, log_message, reply
\*   "confirm_broadcast" confirm_broadcast: is_admin check; nothing is pending
\*   the text kinds      handle_text: should_respond, log_message, and for a
\*                       keyboard label the command handler behind it
handle_update(st, upd, t) ==
    LET u  == upd.user
        ct == upd.chat_type
        mc == upd.fail = "member_count"
    IN  CASE upd.kind = "ping" -> log_message(st, u, ct, "ping", t, mc)
          [] upd.kind = "stats" ->
                IF is_admin(st.users_db, u)
                THEN log_message(st, u, ct, "admin_stats", t, mc)
                ELSE st
          [] upd.kind = "confirm_broadcast" -> st
          [] upd.kind \in {"plain", "trigger", "button", "help_button"} ->
                IF ~should_respond(ct, upd.kind) THEN st
                ELSE LET st1 == log_message(st, u, ct, "text", t, mc)
                     IN  IF st1.raised THEN st1
                         ELSE IF upd.kind = "button"
                              THEN log_message(st1, u, ct, "info", t, FALSE)
                         ELSE IF upd.kind = "help_button"
                              THEN log_message(st1, u, ct, "help", t, FALSE)
                         ELSE st1

\* ---- AdvancedBotDNA._update_advanced_fitness_score
impact_weights(impact) ==
    CASE impact = "low"      -> 1
      [] impact = "medium"   -> 3
      [] impact = "high"     -> 7
      [] impact = "critical" -> 15
      [] OTHER               -> 1

\* type_weights, doubled (optimization is 1.5).
type_weights2(mutation_type) ==
    CASE mutation_type = "bug_fix"              -> 4
      [] mutation_type = "optimization"         -> 3
      [] mutation_type = "feature_add"          -> 6
      [] mutation_type = "security_enhancement" -> 8
      [] mutation_type = "integration"          -> 6
      [] mutation_type = "core_change"          -> 10
      [] OTHER                                  -> 2

\* score and result in 1/40 of a point, confidence in tenths:
\* 40 * impact * type * (0.5 + 0.5 * confidence)
\*    = impact * (2 * type) * (10 + 10 * confidence).
update_advanced_fitness_score_uncapped(score, mutation_type, impact, confidence10) ==
    score + impact_weights(impact) * type_weights2(mutation_type) * (10 + confidence10)

update_advanced_fitness_score(score, mutation_type, impact, confidence10) ==
    Min(FITNESS_CAP * FitnessUnit,
        score + impact_weights(impact) * type_weights2(mutation_type) * (10 + confidence10))

\* ---- webhook()
NoUpdate == [user |-> 0, chat_type |-> "none", kind |-> "none"]
M_Headers == {"123", "wrong"}
Kinds == {"ping", "stats", "confirm_broadcast", "plain", "trigger", "button",
          "help_button", "malformed"}
ChatTypes == {"private", "group"}
Fails == {"none", "member_count"}
Updates == [user : Users, chat_type : ChatTypes, kind : Kinds, fail : Fails]

UserIds(db) == {db[i].user_id : i \in 1..Len(db)}

\* The secret check of webhook(): passed when no secret is configured or the
\* X-Telegram-Bot-Api-Secret-Token header equals it.
webhook_authorized_always(secret_cfg, header) == TRUE

webhook_authorized(secret_cfg, header) ==
    ~(secret_cfg # "" /\ header # secret_cfg)

\* Status of webhook(): 403, or 'OK', 200 once dispatcher.process_update
\* returned, or 'Error', 500 when get_json / de_json raised.
webhook_status(authorized, parsed) ==
    IF ~authorized THEN 403 ELSE IF parsed THEN 200 ELSE 500

\* POST /webhook served by worker process w. The dispatcher catches what a
\* handler raises and calls error_handler, which records a DNA mutation.
\* M_req keeps the Update that Update.de_json built, if it was reached.
\* updates: the updates Telegram may send in this run.
M_webhook(w, updates) ==
    /\ now + S_req.id < MaxRequests
    /\ now' = now + 1
    /\ \E header \in M_Headers, upd \in updates :
         LET auth   == webhook_authorized(M_WEBHOOK_SECRET, header)
             parsed == auth /\ upd.kind # "malformed"
             st0    == [users_db    |-> users_db[w],
                        users_file  |-> users_file,
                        messages_db |-> messages_db[w],
                        log_seq     |-> log_seq[w],
                        calls       |-> 0,
                        raised      |-> FALSE]
             st1    == IF parsed THEN handle_update(st0, upd, now + 1) ELSE st0
             raised == parsed /\ st1.raised
         IN  /\ users_db' = [users_db EXCEPT ![w] = st1.users_db]
             /\ messages_db' = [messages_db EXCEPT ![w] = st1.messages_db]
             /\ log_seq' = [log_seq EXCEPT ![w] = st1.log_seq]
             /\ users_file' = st1.users_file
             /\ ever_saved' = ever_saved \cup UserIds(st1.users_file)
             /\ fitness_score' =
                  IF raised
                  THEN [fitness_score EXCEPT ![w] =
                          update_advanced_fitness_score(@, "error_occurred", "low", 5)]
                  ELSE fitness_score
             /\ last_mutation' =
                  IF raised
                  THEN [n |-> last_mutation.n + 1, worker |-> w,
                        mutation_type |-> "error_occurred", impact |-> "low",
                        confidence10 |-> 5]
                  ELSE last_mutation
             /\ M_req' = [id         |-> now + 1,
                          worker     |-> w,
                          header     |-> header,
                          update     |-> IF parsed
                                         THEN [user |-> upd.user,
                                               chat_type |-> upd.chat_type,
                                               kind |-> upd.kind]
                                         ELSE NoUpdate,
                          parsed     |-> parsed,
                          dispatched |-> parsed,
                          calls      |-> st1.calls,
                          raised     |-> raised,
                          status     |-> webhook_status(auth, parsed)]
    /\ UNCHANGED M_WEBHOOK_SECRET
    /\ UNCHANGED <<S_vars, F_vars, Ext_vars>>

\* A direct call log_message(update, 'ping') in worker 1.
M_log_message ==
    /\ now < MaxLogCalls
    /\ now' = now + 1
    /\ \E user \in Users, grp \in BOOLEAN :
         LET st0 == [users_db    |-> users_db[1],
                     users_file  |-> users_file,
                     messages_db |-> messages_db[1],
                     log_seq     |-> log_seq[1],
                     calls       |-> 0,
                     raised      |-> FALSE]
             st1 == log_message(st0, user, IF grp THEN "group" ELSE "private",
                                "ping", now + 1, grp)
         IN  /\ users_db' = [users_db EXCEPT ![1] = st1.users_db]
             /\ messages_db' = [messages_db EXCEPT ![1] = st1.messages_db]
             /\ log_seq' = [log_seq EXCEPT ![1] = st1.log_seq]
             /\ users_file' = st1.users_file
             /\ ever_saved' = ever_saved \cup UserIds(st1.users_file)
    /\ UNCHANGED <<M_WEBHOOK_SECRET, fitness_score, M_req, last_mutation>>
    /\ UNCHANGED <<S_vars, F_vars, Ext_vars>>

\* A call advanced_dna.record_intelligent_mutation(...) in worker 1.
MutationTypes == {"bug_fix", "optimization", "feature_add", "security_enhancement",
                  "integration", "core_change", "error_occurred"}
Impacts == {"low", "medium", "high", "critical", "unrated"}
Confidences10 == {5, 8, 10}

M_record_intelligent_mutation ==
    /\ last_mutation.n < MaxMutations
    /\ \E mt \in MutationTypes, im \in Impacts, c \in Confidences10 :
         /\ fitness_score' = [fitness_score EXCEPT ![1] =
                                update_advanced_fitness_score(@, mt, im, c)]
         /\ last_mutation' = [n |-> last_mutation.n + 1, worker |-> 1,
                              mutation_type |-> mt, impact |-> im,
                              confidence10 |-> c]
    /\ UNCHANGED <<M_WEBHOOK_SECRET, users_db, messages_db, users_file, now,
                   log_seq, M_req, ever_saved>>
    /\ UNCHANGED <<S_vars, F_vars, Ext_vars>>


\* The state after the module's top level ran in every worker: the JSON
\* files are loaded (no file yet, or a users.json an earlier run wrote).
M_InitCommon ==
    /\ M_WEBHOOK_SECRET \in {"123", ""}
    /\ users_db = [w \in Workers |-> <<>>]
    /\ users_file = <<>>
    /\ now = 0
    /\ M_req = [id |-> 0, worker |-> 0, header |-> "none", update |-> NoUpdate,
                parsed |-> FALSE, dispatched |-> FALSE, calls |-> 0,
                raised |-> FALSE, status |-> 0]
    /\ ever_saved = {}
    /\ last_mutation = [n |-> 0, worker |-> 0, mutation_type |-> "none",
                        impact |-> "none", confidence10 |-> 0]

M_Init ==
    /\ M_InitCommon
    /\ messages_db = [w \in Workers |-> <<>>]
    /\ log_seq = [w \in Workers |-> 0]
    /\ fitness_score = [w \in Workers |-> 85 * FitnessUnit]

\* messages.json holds n entries when the process starts.
LoadedLog(n) == [i \in 1..n |-> [user_id |-> 1, command |-> "ping", seq |-> i]]

M_InitLog ==
    /\ M_InitCommon
    /\ \E n \in {0, MAX_MESSAGES - 1, MAX_MESSAGES} :
         /\ messages_db = [w \in Workers |-> LoadedLog(n)]
         /\ log_seq = [w \in Workers |-> n]
    /\ fitness_score = [w \in Workers |-> 85 * FitnessUnit]

\* dna_v2.json holds an earlier fitness_score, or base_dna's 85 is used.
M_InitDNA ==
    /\ M_InitCommon
    /\ messages_db = [w \in Workers |-> <<>>]
    /\ log_seq = [w \in Workers |-> 0]
    /\ \E f \in {0, 85 * FitnessUnit, FITNESS_CAP * FitnessUnit} :
         fitness_score = [w \in Workers |-> f]

\* ---- TaskManager
\* create_task's reminder_time: None (0) when no due date was given, else
\* due date minus reminder_minutes, a minute of the clock.
ReminderTimes == {0, 1, 2}

T_create_task ==
    /\ Len(tasks_db) < MaxTasks
    /\ \E user \in Users, rt \in ReminderTimes :
         tasks_db' = Append(tasks_db,
                        [id            |-> Len(tasks_db) + 1,
                         user_id       |-> user,
                         reminder_time |-> rt,
                         completed     |-> FALSE,
                         reminder_sent |-> FALSE,
                         last_reminded |-> 0,
                         repeat        |-> "None"])
    /\ reminder_calls' = Append(reminder_calls, 0)
    /\ UNCHANGED T_now
    /\ UNCHANGED <<S_vars, F_vars, M_vars, T_others>>

\* complete_task(user_id, task_id): the task of that id and user, if any.
T_complete_task ==
    /\ \E user \in Users, task_id \in 1..MaxTasks :
         /\ \E i \in 1..Len(tasks_db) :
               tasks_db[i].id = task_id /\ tasks_db[i].user_id = user
         /\ tasks_db' = [i \in 1..Len(tasks_db) |->
                           IF tasks_db[i].id = task_id /\ tasks_db[i].user_id = user
                           THEN [tasks_db[i] EXCEPT !.completed = TRUE]
                           ELSE tasks_db[i]]
    /\ UNCHANGED <<T_now, reminder_calls>>
    /\ UNCHANGED <<S_vars, F_vars, M_vars, T_others>>

\* The test of _check_due_tasks for one task at time t.
task_is_due(task, t) ==
    ~task.completed /\ task.reminder_time # 0 /\ t >= task.reminder_time

\* One round of check_tasks: _check_due_tasks() over all of tasks_db, then
\* time.sleep(60).
T_check_due_tasks ==
    /\ T_now < MaxRounds
    /\ T_now' = T_now + 1
    /\ tasks_db' = [i \in 1..Len(tasks_db) |->
                      IF task_is_due(tasks_db[i], T_now)
                      THEN [tasks_db[i] EXCEPT
                              !.last_reminded = T_now,
                              !.reminder_sent = (tasks_db[i].repeat # "daily")
                                                    \/ @]
                      ELSE tasks_db[i]]
    /\ reminder_calls' = [i \in 1..Len(tasks_db) |->
                            IF task_is_due(tasks_db[i], T_now)
                            THEN reminder_calls[i] + 1
                            ELSE reminder_calls[i]]
    /\ UNCHANGED <<S_vars, F_vars, M_vars, T_others>>

T_Init ==
    /\ tasks_db = <<>>
    /\ T_now = 0
    /\ reminder_calls = <<>>

T_Next == T_create_task \/ T_complete_task \/ T_check_due_tasks

\* ---- QuizGameSystem, quiz_command, button_callback
\* A str is a sequence of pieces: "_" or a piece that holds no underscore.
\* str(n) and int(s) for the numbers that occur.
StrOf(n) == <<"0", "1", "2", "3", "4", "5", "6", "7", "8", "9">>[n + 1]
IsNumeral(piece) == \E n \in 0..9 : StrOf(n) = piece
IntOf(piece) == CHOOSE n \in 0..9 : StrOf(n) = piece

\* s.split("_"): the pieces between the underscores.
RECURSIVE split(_)
split(s) ==
    IF \A k \in 1..Len(s) : s[k] # "_" THEN <<s>>
    ELSE LET k == CHOOSE j \in 1..Len(s) :
                      s[j] = "_" /\ \A h \in 1..(j - 1) : s[h] # "_"
         IN  <<SubSeq(s, 1, k - 1)>> \o split(SubSeq(s, k + 1, Len(s)))

\* f"game_{user_id}_{int(time.time())}"
new_game_id(user_id, t) == <<"game", "_", StrOf(user_id), "_", StrOf(t)>>

\* f"quiz_answer_{game_id}_{i}"
answer_callback_data(game_id, i) ==
    <<"quiz", "_", "answer", "_">> \o game_id \o <<"_", StrOf(i)>>

\* What button_callback takes from data.split("_"): parts[2] and parts[3].
callback_game_id(parts) == parts[2 + 1]
callback_answer_piece(parts) == parts[3 + 1]

QUIZ_QUESTIONS == 2   \* questions of the "tech" quiz
QUIZ_CORRECT == 0     \* their "correct"
QUIZ_POINTS == 15     \* their "points"
AnswerIndexes == 0..3

GameIndex(games, game_id) ==
    IF \E k \in 1..Len(games) : games[k].game_id = game_id
    THEN CHOOSE k \in 1..Len(games) : games[k].game_id = game_id
    ELSE 0

\* start_quiz: active_games[game_id] = {...}; a game of the same id is
\* replaced.
start_quiz(games, user_id, t) ==
    LET gid  == new_game_id(user_id, t)
        game == [game_id |-> gid, user_id |-> user_id, current_question |-> 0,
                 score |-> 0]
        k    == GameIndex(games, gid)
    IN  IF k = 0 THEN Append(games, game) ELSE [games EXCEPT ![k] = game]

\* answer_question(game_id, answer_index): the games afterwards; a finished
\* game is deleted.
answer_question(games, game_id, answer_index) ==
    LET k == GameIndex(games, game_id)
    IN  IF k = 0 THEN games
        ELSE LET g == [games[k] EXCEPT
                         !.score = IF answer_index = QUIZ_CORRECT THEN @ + QUIZ_POINTS ELSE @,
                         !.current_question = @ + 1]
             IN  IF g.current_question >= QUIZ_QUESTIONS
                 THEN SelectSeq(games, LAMBDA x : x.game_id # game_id)
                 ELSE [games EXCEPT ![k] = g]

\* /quiz <type>: start_quiz and the message with the four answer buttons.
Q_quiz_command ==
    /\ Len(Q_messages) < MaxQuizzes
    /\ \E user \in Users, dt \in {0, 1} :
         LET t == Q_time + dt
         IN  /\ Q_time' = t
             /\ active_games' = start_quiz(active_games, user, t)
             /\ Q_messages' = Append(Q_messages,
                   [game_id |-> new_game_id(user, t),
                    buttons |-> [i \in AnswerIndexes |->
                                   answer_callback_data(new_game_id(user, t), i)]])
    /\ UNCHANGED Q_call
    /\ UNCHANGED <<S_vars, F_vars, M_vars, Q_others>>

\* The user presses answer button i of quiz message m: button_callback with
\* that button's callback_data.
Q_button_callback ==
    /\ Q_call.n < MaxPresses
    /\ \E m \in 1..Len(Q_messages), i \in AnswerIndexes :
         LET data   == Q_messages[m].buttons[i]
             parts  == split(data)
             ok     == Len(parts) >= 4 /\ Len(callback_answer_piece(parts)) = 1
                          /\ IsNumeral(callback_answer_piece(parts)[1])
             game_id == callback_game_id(parts)
             answer_index == IntOf(callback_answer_piece(parts)[1])
         IN  /\ active_games' = IF ok
                                THEN answer_question(active_games, game_id, answer_index)
                                ELSE active_games
             /\ Q_call' = [n            |-> Q_call.n + 1,
                           button_game  |-> Q_messages[m].game_id,
                           button_index |-> i,
                           game_active  |-> GameIndex(active_games, Q_messages[m].game_id) # 0,
                           called       |-> ok,
                           game_id      |-> IF ok THEN game_id ELSE <<>>,
                           answer_index |-> IF ok THEN answer_index ELSE 0 - 1,
                           found        |-> ok /\ GameIndex(active_games, game_id) # 0]
    /\ UNCHANGED <<Q_time, Q_messages>>
    /\ UNCHANGED <<S_vars, F_vars, M_vars, Q_others>>

Q_Init ==
    /\ active_games = <<>>
    /\ Q_time = 4
    /\ Q_messages = <<>>
    /\ Q_call = [n |-> 0, button_game |-> <<>>, button_index |-> 0,
                 game_active |-> FALSE, called |-> FALSE, game_id |-> <<>>,
                 answer_index |-> 0 - 1, found |-> FALSE]

Q_Next == Q_quiz_command \/ Q_button_callback

\* ---- two request threads of one process, each handling a /ping
Threads == {1, 2}

\* The thread takes a request: webhook(), process_update, ping, log_message,
\* and in get_or_create_user the loop over users_db up to its outcome.
H_scan(th) ==
    /\ H_pc[th] = "idle"
    /\ now < MaxThreadMessages
    /\ now' = now + 1
    /\ \E user \in Users :
         /\ H_user' = [H_user EXCEPT ![th] = user]
         /\ H_found' = [H_found EXCEPT ![th] = FindUser(users_db[1], user)]
    /\ H_pc' = [H_pc EXCEPT ![th] = "scanned"]
    /\ UNCHANGED <<M_WEBHOOK_SECRET, users_db, messages_db, fitness_score,
                   users_file, log_seq, M_req, ever_saved, last_mutation>>
    /\ UNCHANGED <<S_vars, F_vars, H_others>>

\* The rest of the handler: the record found is updated, or a new one is
\* appended; save_json; the rest of log_message; the reply.
H_finish(th) ==
    /\ H_pc[th] = "scanned"
    /\ LET db0   == users_db[1]
           db1   == IF H_found[th] # 0
                    THEN update_user(db0, H_found[th], now)
                    ELSE append_new_user(db0, H_user[th], now)
           i     == IF H_found[th] # 0 THEN H_found[th] ELSE Len(db1)
           file1 == save_json(users_file, db1)
           st0   == [users_db    |-> db0,
                     users_file  |-> users_file,
                     messages_db |-> messages_db[1],
                     log_seq     |-> log_seq[1],
                     calls       |-> 0,
                     raised      |-> FALSE]
           st1   == log_message_rest(st0, db1, file1, i, H_user[th], "private",
                                     "ping", FALSE)
       IN  /\ users_db' = [users_db EXCEPT ![1] = st1.users_db]
           /\ messages_db' = [messages_db EXCEPT ![1] = st1.messages_db]
           /\ log_seq' = [log_seq EXCEPT ![1] = st1.log_seq]
           /\ users_file' = st1.users_file
           /\ ever_saved' = ever_saved \cup UserIds(st1.users_file)
    /\ H_pc' = [H_pc EXCEPT ![th] = "idle"]
    /\ UNCHANGED <<H_user, H_found>>
    /\ UNCHANGED <<M_WEBHOOK_SECRET, fitness_score, now, M_req, last_mutation>>
    /\ UNCHANGED <<S_vars, F_vars, H_others>>

H_Init ==
    /\ H_pc = [th \in Threads |-> "idle"]
    /\ H_user = [th \in Threads |-> 0]
    /\ H_found = [th \in Threads |-> 0]

H_Next == \E th \in Threads : H_scan(th) \/ H_finish(th)

\* ---- the command handlers of the admin functions
\* Commands whose handler starts with "if not is_admin(user.id): reply, return".
AdminOnlyNames == {"admin", "stats", "broadcast", "confirm_broadcast", "users",
                   "confirm_cleanup", "export", "restart", "approve_admin",
                   "reject_admin", "admin_requests", "evolve"}
\* The name the handler logs the command under.
LogName(name) == IF name = "stats" THEN "admin_stats" ELSE name

NoCleanup == [present |-> FALSE, inactive_users |-> <<>>, active_users |-> <<>>]

\* "for req in self.requests: if req['user_id'] == user_id and
\* req['status'] == 'pending'"
has_pending(requests, user_id) ==
    \E k \in 1..Len(requests) :
        requests[k].user_id = user_id /\ requests[k].status = "pending"

\* AdminRequestSystem.request_admin_access: its return value and the list.
request_admin_access_unchecked(requests, user_id) ==
    [success  |-> TRUE,
     requests |-> Append(requests, [id |-> Len(requests) + 1, user_id |-> user_id,
                                    status |-> "pending", reviewed_by |-> 0])]

request_admin_access(requests, user_id) ==
    IF has_pending(requests, user_id)
    THEN [success |-> FALSE, requests |-> requests]
    ELSE [success  |-> TRUE,
          requests |-> Append(requests, [id |-> Len(requests) + 1, user_id |-> user_id,
                                         status |-> "pending", reviewed_by |-> 0])]

\* The first request of that id, 0 if there is none.
FindRequest(requests, request_id) ==
    IF \E k \in 1..Len(requests) : requests[k].id = request_id
    THEN CHOOSE k \in 1..Len(requests) :
            /\ requests[k].id = request_id
            /\ \A j \in 1..(k - 1) : requests[j].id # request_id
    ELSE 0

\* approve_request / reject_request on the handler state cs.
review_request(cs, request_id, admin_id, status) ==
    LET k == FindRequest(cs.admin_requests_db, request_id)
    IN  IF k = 0 THEN [cs EXCEPT !.reply = "error"]
        ELSE LET reqs == [cs.admin_requests_db EXCEPT
                            ![k] = [@ EXCEPT !.status = status,
                                             !.reviewed_by = admin_id]]
                 i    == FindUser(cs.users_db, reqs[k].user_id)
                 db   == IF status = "approved" /\ i # 0
                         THEN [cs.users_db EXCEPT ![i] = [@ EXCEPT !.is_admin = TRUE]]
                         ELSE cs.users_db
             IN  [cs EXCEPT !.admin_requests_db = reqs,
                            !.users_db = db,
                            !.users_file = IF status = "approved"
                                           THEN save_json(@, db) ELSE @,
                            !.reply = status]

\* request_admin_command; arg = 0: no reason given.
request_admin_command(cs, u, arg, t) ==
    LET cs1 == log_message(cs, u, "private", "request_admin", t, FALSE)
        r   == request_admin_access(cs1.admin_requests_db, u)
    IN  IF is_admin(cs1.users_db, u) THEN [cs1 EXCEPT !.reply = "already_admin"]
        ELSE IF has_pending(cs1.admin_requests_db, u)
             THEN [cs1 EXCEPT !.reply = "already_pending"]
        ELSE IF arg = 0 THEN [cs1 EXCEPT !.reply = "usage"]
        ELSE [cs1 EXCEPT !.admin_requests_db = r.requests,
                         !.reply = IF r.success THEN "sent" ELSE "error"]

\* The record of users_db that is the dict object r of a snapshot, or r
\* itself when users_db no longer holds that object.
CurrentRecord(db, r) ==
    IF \E i \in 1..Len(db) : db[i].user_id = r.user_id /\ db[i].first_seen = r.first_seen
    THEN db[CHOOSE i \in 1..Len(db) :
                db[i].user_id = r.user_id /\ db[i].first_seen = r.first_seen]
    ELSE r

\* "/users cleanup <days>": a user is inactive when last seen at least
\* inactive_days days ago and not flagged is_admin. One tick of now is a day.
is_inactive(r, t, inactive_days) == t - r.last_seen >= inactive_days /\ ~r.is_admin

\* broadcast_command after its log_message; arg = 0: no message given.
broadcast_command(cs, u, arg, t) ==
    IF arg = 0 THEN [cs EXCEPT !.reply = "usage"]
    ELSE IF Len(cs.users_db) = 0 THEN [cs EXCEPT !.reply = "no_users"]
    ELSE [cs EXCEPT !.pending_broadcast = [@ EXCEPT ![u] = t],
                    !.reply = "confirm?"]

confirm_broadcast(cs, u, t) ==
    IF cs.pending_broadcast[u] = 0 THEN [cs EXCEPT !.reply = "nothing_pending"]
    ELSE [cs EXCEPT !.sent = Len(cs.users_db),
                    !.broadcasts_db = Append(@, [id |-> Len(@) + 1, admin_id |-> u,
                                                 message |-> cs.pending_broadcast[u]]),
                    !.pending_broadcast = [@ EXCEPT ![u] = 0],
                    !.reply = "broadcast_done"]

\* users_command after its log_message; arg = 0: no subcommand, else
\* "cleanup <arg>".
users_command(cs, u, arg, t) ==
    LET inactive == SelectSeq(cs.users_db, LAMBDA r : is_inactive(r, t, arg))
        active   == SelectSeq(cs.users_db, LAMBDA r : ~is_inactive(r, t, arg))
    IN  IF arg = 0 THEN [cs EXCEPT !.reply = "summary"]
        ELSE IF Len(inactive) = 0 THEN [cs EXCEPT !.reply = "none_inactive"]
        ELSE [cs EXCEPT !.pending_cleanup = [@ EXCEPT ![u] =
                            [present |-> TRUE, inactive_users |-> inactive,
                             active_users |-> active]],
                        !.reply = "confirm?"]

confirm_cleanup(cs, u) ==
    IF ~cs.pending_cleanup[u].present THEN [cs EXCEPT !.reply = "nothing_pending"]
    ELSE LET keep == cs.pending_cleanup[u].active_users
             db   == [k \in 1..Len(keep) |-> CurrentRecord(cs.users_db, keep[k])]
         IN  [cs EXCEPT !.deleted = UserIds(cs.users_db) \ UserIds(db),
                        !.users_db = db,
                        !.users_file = save_json(@, db),
                        !.pending_cleanup = [@ EXCEPT ![u] = NoCleanup],
                        !.reply = "cleanup_done"]

\* restart_command after its log_message: the files are saved and the
\* restart is recorded as a DNA mutation.
restart_command(cs) ==
    [cs EXCEPT !.users_file = save_json(@, cs.users_db),
               !.fitness = update_advanced_fitness_score(@, "system_restart", "low", 10),
               !.mutations = @ + 1,
               !.reply = "restarted"]

\* The handler the dispatcher picks for the command cmd = [user, name, arg]
\* and everything it calls, up to its reply.
handle_command(cs, cmd, t) ==
    LET u      == cmd.user
        logged == log_message(cs, u, "private", LogName(cmd.name), t, FALSE)
    IN  CASE cmd.name = "ping" -> [logged EXCEPT !.reply = "pong"]
          [] cmd.name = "request_admin" -> request_admin_command(cs, u, cmd.arg, t)
          [] cmd.name \in AdminOnlyNames /\ ~is_admin(cs.users_db, u) ->
                [cs EXCEPT !.reply = "denied"]
          [] cmd.name \in {"admin", "stats", "export", "admin_requests", "evolve"} ->
                [logged EXCEPT !.reply = "report"]
          [] cmd.name = "restart" -> restart_command(logged)
          [] cmd.name = "broadcast" -> broadcast_command(logged, u, cmd.arg, t)
          [] cmd.name = "confirm_broadcast" -> confirm_broadcast(cs, u, t)
          [] cmd.name = "users" -> users_command(logged, u, cmd.arg, t)
          [] cmd.name = "confirm_cleanup" -> confirm_cleanup(cs, u)
          [] cmd.name = "approve_admin" ->
                IF cmd.arg = 0 THEN [cs EXCEPT !.reply = "usage"]
                ELSE review_request(cs, cmd.arg, u, "approved")
          [] cmd.name = "reject_admin" ->
                IF cmd.arg = 0 THEN [cs EXCEPT !.reply = "usage"]
                ELSE review_request(cs, cmd.arg, u, "rejected")

\* The commands of a run: cmd = [user, name, arg].
Command(u, name, arg) == [user |-> u, name |-> name, arg |-> arg]

ConfirmCommands ==
    {Command(u, n, 0) : u \in Users, n \in {"ping", "confirm_broadcast", "confirm_cleanup"}}
        \cup {Command(u, n, 1) : u \in Users, n \in {"broadcast", "users"}}

RequestCommands ==
    {Command(u, "request_admin", a) : u \in Users, a \in {0, 1}}
        \cup {Command(u, n, a) : u \in Users, n \in {"approve_admin", "reject_admin"},
                                 a \in {1, 2}}

AdminCommands ==
    {Command(u, n, 0) : u \in Users, n \in (AdminOnlyNames \cup {"ping"})}
        \cup {Command(u, n, 1) : u \in Users,
                n \in {"broadcast", "users", "approve_admin", "reject_admin",
                       "request_admin"}}

\* POST /webhook with the right secret header and a command message, served
\* by the single process: dispatcher.process_update runs the handler.
M_command(cmds, bound) ==
    /\ now < bound
    /\ now' = now + 1
    /\ \E cmd \in cmds :
         LET cs0 == [users_db          |-> users_db[1],
                     users_file        |-> users_file,
                     messages_db       |-> messages_db[1],
                     log_seq           |-> log_seq[1],
                     calls             |-> 0,
                     raised            |-> FALSE,
                     broadcasts_db     |-> broadcasts_db,
                     admin_requests_db |-> admin_requests_db,
                     pending_broadcast |-> pending_broadcast,
                     pending_cleanup   |-> pending_cleanup,
                     fitness           |-> fitness_score[1],
                     mutations         |-> 0,
                     sent              |-> 0,
                     deleted           |-> {},
                     reply             |-> "none"]
             cs1 == handle_command(cs0, cmd, now + 1)
         IN  /\ users_db' = [users_db EXCEPT ![1] = cs1.users_db]
             /\ messages_db' = [messages_db EXCEPT ![1] = cs1.messages_db]
             /\ log_seq' = [log_seq EXCEPT ![1] = cs1.log_seq]
             /\ users_file' = cs1.users_file
             /\ ever_saved' = ever_saved \cup UserIds(cs1.users_file)
             /\ fitness_score' = [fitness_score EXCEPT ![1] = cs1.fitness]
             /\ last_mutation' =
                  IF cs1.mutations > 0
                  THEN [n |-> last_mutation.n + 1, worker |-> 1,
                        mutation_type |-> "system_restart", impact |-> "low",
                        confidence10 |-> 10]
                  ELSE last_mutation
             /\ broadcasts_db' = cs1.broadcasts_db
             /\ admin_requests_db' = cs1.admin_requests_db
             /\ pending_broadcast' = cs1.pending_broadcast
             /\ pending_cleanup' = cs1.pending_cleanup
             /\ A_cmd' = [n       |-> now + 1,
                          user    |-> cmd.user,
                          name    |-> cmd.name,
                          arg     |-> cmd.arg,
                          prev    |-> A_cmd.last[cmd.user],
                          last    |-> [A_cmd.last EXCEPT ![cmd.user] = cmd.name],
                          reply   |-> cs1.reply,
                          sent    |-> cs1.sent,
                          deleted |-> cs1.deleted]
    /\ UNCHANGED <<M_WEBHOOK_SECRET, M_req>>
    /\ UNCHANGED <<S_vars, F_vars, A_others>>

\* A direct call admin_request_system.request_admin_access(user_id, ...).
A_request_admin_access ==
    /\ now < MaxRequestCommands
    /\ now' = now + 1
    /\ \E user \in Users :
         LET r == request_admin_access(admin_requests_db, user)
         IN  /\ admin_requests_db' = r.requests
             /\ A_cmd' = [n       |-> now + 1,
                          user    |-> user,
                          name    |-> "request_admin_access",
                          arg     |-> 0,
                          prev    |-> "none",
                          last    |-> A_cmd.last,
                          reply   |-> IF r.success THEN "True" ELSE "False",
                          sent    |-> 0,
                          deleted |-> {}]
    /\ UNCHANGED <<broadcasts_db, pending_broadcast, pending_cleanup>>
    /\ UNCHANGED <<M_WEBHOOK_SECRET, users_db, messages_db, fitness_score,
                   users_file, log_seq, M_req, ever_saved, last_mutation>>
    /\ UNCHANGED <<S_vars, F_vars, A_others>>

A_Init ==
    /\ broadcasts_db = <<>>
    /\ admin_requests_db = <<>>
    /\ pending_broadcast = [u \in Users |-> 0]
    /\ pending_cleanup = [u \in Users |-> NoCleanup]
    /\ A_cmd = [n |-> 0, user |-> 0, name |-> "none", arg |-> 0, prev |-> "none",
                last |-> [u \in Users |-> "none"], reply |-> "none",
                sent |-> 0, deleted |-> {}]

\* users.json as an earlier run left it: user 2 was last seen on day 0.
LoadedUsers ==
    <<[user_id            |-> 2,
       first_seen         |-> 0,
       message_count      |-> 1,
       last_seen          |-> 0,
       is_admin           |-> FALSE,
       total_interactions |-> 1,
       last_command       |-> "absent",
       commands_used      |-> NoCommands,
       engagement_score   |-> 50]>>

M_InitLoadedUsers ==
    /\ M_WEBHOOK_SECRET = "123"
    /\ users_db = [w \in Workers |-> LoadedUsers]
    /\ users_file = LoadedUsers
    /\ now = 0
    /\ M_req = [id |-> 0, worker |-> 0, header |-> "none", update |-> NoUpdate,
                parsed |-> FALSE, dispatched |-> FALSE, calls |-> 0,
                raised |-> FALSE, status |-> 0]
    /\ ever_saved = {2}
    /\ last_mutation = [n |-> 0, worker |-> 0, mutation_type |-> "none",
                        impact |-> "none", confidence10 |-> 0]
    /\ messages_db = [w \in Workers |-> <<>>]
    /\ log_seq = [w \in Workers |-> 0]
    /\ fitness_score = [w \in Workers |-> 85 * FitnessUnit]

\* =========================================================================
\* Specifications
\* =========================================================================
Ext_Init == SA_Init /\ T_Init /\ Q_Init /\ H_Init /\ A_Init

Init == S_Init /\ F_Init /\ M_Init /\ Ext_Init

\* The two Flask webhooks, each served by one process.
Next == S_webhook \/ M_webhook(1, Updates)
Spec == Init /\ [][Next]_vars

\* src/bot/bot.py under two worker processes sharing the data directory.
WorkerUpdates == {u \in Updates : u.kind \in {"ping", "plain", "malformed"}}
NextWorkers == \E w \in Workers : M_webhook(w, WorkerUpdates)
SpecWorkers == Init /\ [][NextWorkers]_vars

\* log_message on a message log that was loaded nearly full.
InitLog == S_Init /\ F_Init /\ M_InitLog /\ Ext_Init
SpecLog == InitLog /\ [][M_log_message]_vars

\* The DNA bookkeeping alone.
InitDNA == S_Init /\ F_Init /\ M_InitDNA /\ Ext_Init
SpecDNA == InitDNA /\ [][M_record_intelligent_mutation]_vars

\* set_webhook() of src/bot.py called by its three callers.
NextSetWebhook ==
    \E c \in S_Callers :
        \/ S_set_webhook_begin(c)
        \/ S_set_webhook_delete(c)
        \/ S_set_webhook_set(c)
InitSetWebhook == S_InitSetWebhook /\ F_Init /\ M_Init /\ Ext_Init
SpecSetWebhook == InitSetWebhook /\ [][NextSetWebhook]_vars

\* src/BOT/bot.py; the event loop runs every coroutine that can run.
SpecFast == Init /\ [][F_Next]_vars
SpecFastFair == Init /\ [][F_Next]_vars /\ WF_vars(F_Next)

\* The admin endpoints of src/bot.py, one request at a time.
SpecAdminEndpoints == InitSetWebhook /\ [][S_admin]_vars

\* The task manager and its background checker.
SpecTasks == Init /\ [][T_Next]_vars

\* The quiz game and its inline answer buttons.
SpecQuiz == Init /\ [][Q_Next]_vars

\* src/bot/bot.py served by two request threads of one process.
SpecThreads == Init /\ [][H_Next]_vars

\* The two-step confirmations, on a users.json an earlier run wrote.
InitLoadedUsers == S_Init /\ F_Init /\ M_InitLoadedUsers /\ Ext_Init
SpecConfirm == InitLoadedUsers /\ [][M_command(ConfirmCommands, MaxConfirmCommands)]_vars

\* The admin requests: the three commands and direct calls of the method.
NextRequests ==
    \/ M_command(RequestCommands, MaxRequestCommands)
    \/ A_request_admin_access
SpecRequests == Init /\ [][NextRequests]_vars

\* All admin functions.
SpecAdmin == InitLoadedUsers /\ [][M_command(AdminCommands, MaxAdminCommands)]_vars
\* =========================================================================
\* Claims
\* =========================================================================
S_served == S_req'.id # S_req.id
M_served == M_req'.id # M_req.id

\* C1: a webhook POST without the configured secret (src/bot.py: wrong
\* <secret> path segment; src/bot/bot.py: wrong header while WEBHOOK_SECRET is
\* not empty) is answered 403, and nothing of it is parsed or dispatched: the
\* program's data stays as it was.
C1_RejectedIsNeverParsed ==
    [][ /\ (S_served /\ S_req'.secret # S_WEBHOOK_SECRET)
            => /\ S_req'.status = 403
               /\ ~S_req'.parsed
               /\ S_processed' = S_processed
        /\ (M_served /\ M_WEBHOOK_SECRET # "" /\ M_req'.header # M_WEBHOOK_SECRET)
            => /\ M_req'.status = 403
               /\ ~M_req'.parsed
               /\ ~M_req'.dispatched
               /\ UNCHANGED <<users_db, messages_db, users_file, log_seq,
                              fitness_score>>
      ]_vars

C1_Witness ==
    /\ S_req.id # 0 /\ S_req.secret # S_WEBHOOK_SECRET /\ S_req.status = 403
    /\ M_req.id # 0 /\ M_WEBHOOK_SECRET # "" /\ M_req.header # M_WEBHOOK_SECRET
    /\ M_req.status = 403

\* C2: every update that telegram_webhook answered {"ok": true} for, i.e. put
\* on application.update_queue, is eventually handled by its command handler,
\* which sends a reply.
C2_QueuedIsEventuallyHandled ==
    \A u \in 1..MaxFastRequests :
        (\E i \in 1..Len(update_queue) : update_queue[i] = u) ~> (u \in F_replies)

\* C3: src/bot.py answers 200 to every POST with the right secret and a JSON
\* content type, also when processing the update raised.
C3_AcceptedIsAlways200 ==
    (S_req.id # 0 /\ S_req.secret = S_WEBHOOK_SECRET /\ S_req.is_json)
        => S_req.status = 200

C3_Witness ==
    /\ S_req.secret = S_WEBHOOK_SECRET /\ S_req.is_json
    /\ S_req.raised /\ S_req.status = 200

\* C4: after log_message calls on a log that started with at most 5000
\* entries, messages_db holds at most 5000 entries, and they are the most
\* recent ones in their order of arrival (the oldest was dropped).
C4_LogIsTheLast5000 ==
    LET log == messages_db[1]
    IN  /\ Len(log) = Min(MAX_MESSAGES, log_seq[1])
        /\ \A i \in 1..Len(log) : log[i].seq = log_seq[1] - Len(log) + i

C4_Witness ==
    /\ log_seq[1] > MAX_MESSAGES + 1
    /\ Len(messages_db[1]) = MAX_MESSAGES
    /\ messages_db[1][1].seq = log_seq[1] - MAX_MESSAGES + 1

\* The message_count of user u in db, 0 when u has no record.
C5_Count(db, u) ==
    IF FindUser(db, u) = 0 THEN 0 ELSE db[FindUser(db, u)].message_count

C5_LogCalls(upd, admin, raised) ==
    CASE upd.kind = "ping" -> 1
      [] upd.kind = "stats" -> IF admin THEN 1 ELSE 0
      [] upd.kind = "confirm_broadcast" -> 0
      [] upd.kind \in {"plain", "button"} /\ upd.chat_type = "group" -> 0
      [] upd.kind \in {"plain", "trigger"} -> 1
      [] upd.kind \in {"button", "help_button"} -> IF raised THEN 1 ELSE 2

C6_FileEqualsMemory == users_file = users_db[1]

\* C7: with two workers every rewrite of users.json holds exactly the records
\* of the writing worker's own users_db, whatever the file held before, and a
\* request that erases records from the file is still answered 200.
C7_RewriteKeepsOnlyOwnCopy ==
    [][ M_served
          => LET w == M_req'.worker
             IN  /\ M_req'.calls > 0
                    => UserIds(users_file') = UserIds(users_db'[w])
                 /\ ~(UserIds(users_file) \subseteq UserIds(users_file'))
                    => M_req'.status = 200
      ]_vars

\* A user that one worker wrote to users.json is no longer in the file.
C7_Witness ==
    /\ \E u \in ever_saved : u \notin UserIds(users_file)
    /\ M_req.status = 200

\* The tables as the claim gives them (type weights doubled).
C8_ImpactWeight(impact) ==
    IF impact = "low" THEN 1 ELSE IF impact = "medium" THEN 3
    ELSE IF impact = "high" THEN 7 ELSE IF impact = "critical" THEN 15 ELSE 1

C8_TypeWeight2(t) ==
    IF t = "bug_fix" THEN 4 ELSE IF t = "optimization" THEN 3
    ELSE IF t = "feature_add" THEN 6 ELSE IF t = "security_enhancement" THEN 8
    ELSE IF t = "integration" THEN 6 ELSE IF t = "core_change" THEN 10 ELSE 2

\* C8: record_intelligent_mutation changes fitness_score to
\* min(100, old + impact_weight * type_weight * (0.5 + 0.5 * confidence)), so
\* that it never decreases and never exceeds 100.
C8_FitnessFormula ==
    [][ last_mutation'.n # last_mutation.n
          => LET m   == last_mutation'
                 inc == C8_ImpactWeight(m.impact) * C8_TypeWeight2(m.mutation_type)
                            * (10 + m.confidence10)
             IN  /\ fitness_score'[1] = Min(100 * FitnessUnit, fitness_score[1] + inc)
                 /\ fitness_score'[1] >= fitness_score[1]
                 /\ fitness_score'[1] <= 100 * FitnessUnit
      ]_vars

C8_Witness ==
    /\ last_mutation.n = 2
    /\ last_mutation.mutation_type = "optimization"
    /\ fitness_score[1] = 100 * FitnessUnit

\* C9: GET /health reports "ready" exactly when a set_webhook call of this
\* process has succeeded, be it on_startup's or /debug/setWebhookManual's.
C9_HealthTracksSetWebhook ==
    F_health.status # "none"
        => (F_health.status = "ready" <=> F_health.set_ok)

\* C10: when every set_webhook() call made so far has returned True, whether
\* the calls ran one after another or at the same time, the webhook
\* registered at Telegram is WEBHOOK_URL/webhook/WEBHOOK_SECRET.
C10_RepeatedSetWebhook ==
    ( /\ \A c \in S_Callers : S_pc[c] \in {"idle", "done"}
      /\ \E c \in S_Callers : S_pc[c] = "done"
      /\ \A c \in S_Callers : S_pc[c] = "done" => S_ret[c] = "True" )
        => tg_webhook = rstrip(S_WEBHOOK_URL) \o <<"/", "webhook", "/", S_WEBHOOK_SECRET>>

C10_Witness ==
    /\ \A c \in S_Callers : S_pc[c] = "done" /\ S_ret[c] = "True"
    /\ S_WEBHOOK_URL = <<"https://host", "/">>
    /\ tg_webhook = <<"https://host", "/", "webhook", "/", S_WEBHOOK_SECRET>>

\* C15: an /admin/... request of src/bot.py whose <secret> is not
\* WEBHOOK_SECRET is answered 403, sends no request to the Telegram API and
\* leaves the registered webhook as it was.
C15_AdminNeedsSecret ==
    [][ (S_admin_req'.id # S_admin_req.id /\ S_admin_req'.secret # S_WEBHOOK_SECRET)
          => /\ S_admin_req'.status = 403
             /\ S_api_calls' = S_api_calls
             /\ tg_webhook' = tg_webhook
      ]_vars

C15_Witness ==
    /\ S_admin_req.secret = "guess" /\ S_admin_req.status = 403
    /\ S_admin_req.endpoint = "delete_webhook"
    /\ Len(S_api_calls) > 0
    /\ tg_webhook # <<>>

\* The sleeps on_startup has made when it has made n of them.
C16_Sleeps(n) == SubSeq(<<2, 4, 8, 16>>, 1, n)

\* C16: on_startup terminates; it calls set_webhook at most 5 times and not
\* again after a call succeeded, sleeps 2^attempt seconds between attempts
\* only, and after 5 failed attempts it has returned with _ready False and
\* application set.
C16_StartupTerminates ==
    /\ <>(F_pc = "serving")
    /\ [](F_set_calls <= 5)
    /\ [][F_ready => F_set_calls' = F_set_calls]_vars
    /\ [](Len(F_slept) <= 4 /\ F_slept = C16_Sleeps(Len(F_slept)))
    /\ [](F_pc = "attempt" => Len(F_slept) = F_set_calls)
    /\ [](F_pc \in {"sleep", "serving"} => Len(F_slept) = F_set_calls - 1)
    /\ []((F_pc = "serving" /\ ~F_set_ok /\ F_nreq = 0)
            => (F_set_calls = 5 /\ ~F_ready /\ application = "built"))

C16_Witness ==
    /\ F_pc = "serving" /\ F_set_calls = 5 /\ F_slept = <<2, 4, 8, 16>>
    /\ ~F_ready /\ application = "built"

\* C12: over any number of _check_due_tasks rounds, _send_task_reminder is
\* called at most once for a task whose repeat is not "daily".
C12_OneReminderPerTask ==
    \A i \in 1..Len(tasks_db) :
        tasks_db[i].repeat # "daily" => reminder_calls[i] <= 1

\* C17: pressing answer button i of the quiz message of a game G that is
\* still active makes button_callback call answer_question with G's game_id
\* and the answer index i.
C17_ButtonAnswersItsQuiz ==
    (Q_call.n > 0 /\ Q_call.game_active)
        => /\ Q_call.called
           /\ Q_call.game_id = Q_call.button_game
           /\ Q_call.answer_index = Q_call.button_index

\* C18: users_db holds at most one record per user_id, also when two first
\* messages of one new user are handled at the same time by two request
\* threads.
C18_OneRecordPerUserId ==
    \A i, j \in 1..Len(users_db[1]) :
        users_db[1][i].user_id = users_db[1][j].user_id => i = j

\* C11: a pending two-step confirmation is cancelled by any other command:
\* a /confirm_broadcast (/confirm_cleanup) whose sender's previous command
\* was not /broadcast (/users cleanup) finds nothing pending, sends no
\* broadcast and deletes no user.
C11_OtherCommandCancels ==
    /\ (A_cmd.name = "confirm_broadcast" /\ A_cmd.prev # "broadcast")
          => (A_cmd.sent = 0 /\ A_cmd.reply # "broadcast_done")
    /\ (A_cmd.name = "confirm_cleanup" /\ A_cmd.prev # "users")
          => (A_cmd.deleted = {} /\ A_cmd.reply # "cleanup_done")

\* The requests of user u that are pending.
C13_Pending(requests, u) ==
    {k \in 1..Len(requests) : requests[k].user_id = u /\ requests[k].status = "pending"}

\* C13: admin_requests_db never holds two pending requests of one user, and a
\* request_admin_access call of a user with a pending request returns
\* success=False and appends nothing.
C13_OnePendingPerUser ==
    /\ [](\A u \in Users : Cardinality(C13_Pending(admin_requests_db, u)) <= 1)
    /\ [][ (A_cmd'.n # A_cmd.n /\ A_cmd'.name = "request_admin_access"
               /\ C13_Pending(admin_requests_db, A_cmd'.user) # {})
             => (A_cmd'.reply = "False" /\ admin_requests_db' = admin_requests_db)
         ]_vars

C13_Witness ==
    /\ A_cmd.name = "request_admin_access" /\ A_cmd.reply = "False"
    /\ Len(admin_requests_db) = 2
    /\ admin_requests_db[1].status = "rejected"
    /\ admin_requests_db[2].status = "pending"
    /\ admin_requests_db[1].user_id = admin_requests_db[2].user_id

\* is_admin(u) is false: u is not ADMIN_USER_ID and no record of u is flagged.
C14_NotAdmin(db, u) ==
    /\ u # ADMIN_USER_ID
    /\ \A i \in 1..Len(db) : db[i].user_id = u => ~db[i].is_admin

=============================================================================
